---- MODULE Spec2Model ----
(***************************************************************************)
(* A model of sbin/gener_readme.py: the README generator that expands      *)
(* reference lines of a template into citation blocks, resolving them      *)
(* through arXiv, Crossref and Semantic Scholar behind a persistent cache. *)
(*                                                                         *)
(* Representation.                                                         *)
(*   - A Python str is a sequence of tokens (TLA+ strings).  A token is a  *)
(*     single character (" ", "\n", "+", "{", "}", ":", ...) or a word     *)
(*     without whitespace.  Concatenation is \o.                           *)
(*   - Inside a template line the tokens "a1", "d1", "s1", ... stand for   *)
(*     one JSON member each ("arxiv_id": "1", ...); "x" is text that is    *)
(*     not JSON.                                                           *)
(*   - A Python dict is a sequence of <<name, value>> pairs in insertion   *)
(*     order with unique names.  A value is a record [tag, s, l].          *)
(*   - The nested raw payloads are flattened to the fields the clean_raw   *)
(*     functions read.                                                     *)
(***************************************************************************)
EXTENDS Integers, Sequences, FiniteSets, TLC

(* ------------------------------ bounds -------------------------------- *)

\* The longest template, in lines.
MaxLines == 2
\* The number of runs of the program in one behaviour.
MaxRuns == 2
\* The number of 503 answers the arXiv server gives to one fetch.
MaxThrottle == 2

(* ------------------------------- text --------------------------------- *)

KEY_FIELD_NAME == "0KEY_"

Whitespace == {" ", "\n"}

\* str.strip(): leading and trailing whitespace removed.
RECURSIVE LStrip(_)
LStrip(s) ==
    IF s # <<>> /\ Head(s) \in Whitespace THEN LStrip(Tail(s)) ELSE s

RECURSIVE RStrip(_)
RStrip(s) ==
    IF s # <<>> /\ s[Len(s)] \in Whitespace
    THEN RStrip(SubSeq(s, 1, Len(s) - 1))
    ELSE s

Strip(s) == RStrip(LStrip(s))

\* str.split(): the maximal runs of non-whitespace tokens.  A word of the
\* model is one token, so the runs are the non-whitespace tokens.
Split(s) == SelectSeq(s, LAMBDA t : t \notin Whitespace)

\* line.split(sep=c, maxsplit=1)[0]: the text before the first c.
RECURSIVE Before(_, _)
Before(s, c) ==
    IF s = <<>> \/ Head(s) = c THEN <<>> ELSE <<Head(s)>> \o Before(Tail(s), c)

\* The order of the characters of a cache key, as Python compares them.
KeyChars == <<"1", ":", "a", "d", "s">>

CharRank(c) == CHOOSE i \in 1..Len(KeyChars) : KeyChars[i] = c

\* s < t for Python strings (lexicographic).
RECURSIVE StrLess(_, _)
StrLess(s, t) ==
    IF t = <<>> THEN FALSE
    ELSE IF s = <<>> THEN TRUE
    ELSE IF Head(s) # Head(t) THEN CharRank(Head(s)) < CharRank(Head(t))
    ELSE StrLess(Tail(s), Tail(t))

(* ------------------------------ values -------------------------------- *)

Str(s)  == [tag |-> "str",  s |-> s,    l |-> <<>>]
Num(s)  == [tag |-> "int",  s |-> s,    l |-> <<>>]
None    == [tag |-> "none", s |-> <<>>, l |-> <<>>]
List(l) == [tag |-> "list", s |-> <<>>, l |-> l]
\* A single XML element flattened to a mapping, not wrapped in a list.
One(e)  == [tag |-> "dict", s |-> <<>>, l |-> <<e>>]

\* str(v) of a str or an int.
PyStr(v) == Str(v.s)

(* ------------------------------- dicts -------------------------------- *)

Names(d) == {d[i][1] : i \in 1..Len(d)}

Has(d, k) == k \in Names(d)

Get(d, k) == d[CHOOSE i \in 1..Len(d) : d[i][1] = k][2]

\* d[k] = v
Put(d, k, v) ==
    IF Has(d, k)
    THEN [i \in 1..Len(d) |-> IF d[i][1] = k THEN <<k, v>> ELSE d[i]]
    ELSE Append(d, <<k, v>>)

\* The mapping a dict stands for: Python's == on dicts ignores the order.
AsMap(d) == [k \in Names(d) |-> Get(d, k)]

(* ------------------------------- JSON --------------------------------- *)

\* The order of the member names of the model, as Python compares them.
FieldNames ==
    <<"0KEY_", "DOI", "arxivId", "arxiv_id", "author", "authors", "created",
      "doi", "enumerator_char", "identifier", "line_prefix", "sems_id",
      "title", "year">>

FieldRank(n) == CHOOSE i \in 1..Len(FieldNames) : FieldNames[i] = n

\* json.dumps(d, sort_keys=True): the members in ascending order of name.
JsonDumps(d) ==
    SortSeq(d, LAMBDA p, q : FieldRank(p[1]) < FieldRank(q[1]))

\* json.loads of an object: its members inserted in the order of the text,
\* a repeated name keeping its first place and its last value.
RECURSIVE JsonLoads(_)
JsonLoads(t) ==
    IF t = <<>> THEN <<>>
    ELSE LET n == Len(t)
         IN  Put(JsonLoads(SubSeq(t, 1, n - 1)), t[n][1], t[n][2])

(* ------------------------------- cache -------------------------------- *)

\* The cache file: whether it exists, and its lines (one JSON object each).
NoFile == [exists |-> FALSE, lines |-> <<>>]

EmptyCache == <<>>

\* cache[key] = r on a cache held as a function from keys to records.
CachePut(cache, key, r) ==
    [k \in DOMAIN cache \cup {key} |-> IF k = key THEN r ELSE cache[k]]

RECURSIVE LoadLines(_)
LoadLines(lines) ==
    IF lines = <<>> THEN EmptyCache
    ELSE LET n == Len(lines)
             r == JsonLoads(lines[n])
         IN  CachePut(LoadLines(SubSeq(lines, 1, n - 1)),
                      Get(r, KEY_FIELD_NAME).s, r)

\* A load_cache that does not find the file.
load_cache_NoFile(file) == EmptyCache

load_cache(file) == IF file.exists THEN LoadLines(file.lines) ELSE EmptyCache

\* The keys in descending order.
RECURSIVE Sorted_Reverse(_)
Sorted_Reverse(S) ==
    IF S = {} THEN <<>>
    ELSE LET m == CHOOSE x \in S : \A y \in S \ {x} : StrLess(y, x)
         IN  <<m>> \o Sorted_Reverse(S \ {m})

\* sorted(cache.keys())
RECURSIVE Sorted(_)
Sorted(S) ==
    IF S = {} THEN <<>>
    ELSE LET m == CHOOSE x \in S : \A y \in S \ {x} : StrLess(x, y)
         IN  <<m>> \o Sorted(S \ {m})

save_cache(cache) ==
    LET ks == Sorted(DOMAIN cache)
    IN  [exists |-> TRUE,
         lines  |-> [i \in 1..Len(ks) |-> JsonDumps(cache[ks[i]])]]

get_cache_key(src_code, src_id) == <<src_code>> \o <<":">> \o src_id

(* ---------------------------- the extractor --------------------------- *)

ENUMERATION_CHARS == {"+"}
BEG_REFERENCE_CHAR == "{"
END_REFERENCE_CHAR == "}"

\* The tokens of a template line that stand for one JSON member.
MemberTokens == {"a1", "d1", "s1"}

MemberName(t) ==
    CASE t = "a1" -> "arxiv_id"
      [] t = "d1" -> "doi"
      [] OTHER    -> "sems_id"

MemberValue(t) == Str(<<"1">>)

\* Whether json.loads accepts the reference: an object of members.
IsJsonObject(ref) ==
    /\ Len(ref) >= 2
    /\ ref[1] = "{"
    /\ ref[Len(ref)] = "}"
    /\ \A i \in 2..(Len(ref) - 1) : ref[i] \in MemberTokens \cup Whitespace

\* json.loads(line_reference) of an accepted reference.
ParseReference(ref) ==
    LET ms == SelectSeq(ref, LAMBDA t : t \in MemberTokens)
    IN  JsonLoads([i \in 1..Len(ms) |-> <<MemberName(ms[i]), MemberValue(ms[i])>>])

\* extract_metadata(line): what it returns (kind "none": None, kind "desc":
\* the dict m) or the exception it raises.
extract_metadata(line) ==
    LET line_stripped == Strip(line)
    IN  IF line_stripped # <<>> /\ line_stripped[1] \in ENUMERATION_CHARS
        THEN LET line_reference == Strip(Tail(line_stripped))
             IN  IF line_reference = <<>>
                 THEN [kind |-> "IndexError", m |-> <<>>]
                 ELSE IF /\ line_reference[1] = BEG_REFERENCE_CHAR
                         /\ line_reference[Len(line_reference)] = END_REFERENCE_CHAR
                 THEN IF IsJsonObject(line_reference)
                      THEN [kind |-> "desc",
                            m |-> Put(Put(ParseReference(line_reference),
                                          "enumerator_char",
                                          Str(<<line_stripped[1]>>)),
                                      "line_prefix",
                                      Str(Before(line, line_stripped[1])))]
                      ELSE [kind |-> "JSONDecodeError", m |-> <<>>]
                 ELSE [kind |-> "none", m |-> <<>>]
        ELSE [kind |-> "none", m |-> <<>>]

(* ---------------------------- the providers --------------------------- *)

\* The identifiers the template lines of the model name.
Ids == {<<"1">>}

\* What the arXiv server can answer for an identifier, flattened by
\* parse_generic_xml (GetRecord/record/header/identifier and the children
\* of GetRecord/record/metadata/arXiv), members in document order: one
\* author (a mapping, not a list) and no doi element; or two authors, a doi
\* and an empty created element.
ArxivPayloads(id) ==
    { << <<"identifier", Str(<<"oai:arXiv.org:">> \o id)>>,
         <<"created", Str(<<"2", "0", "2", "0", "-", "0", "1">>)>>,
         <<"authors", One(<< <<"Smith">>, <<"Jon">> >>)>>,
         <<"title", Str(<<"Foo", "\n", " ", " ", "Bar">>)>> >>,
      << <<"identifier", Str(<<"oai:arXiv.org:">> \o id)>>,
         <<"created", None>>,
         <<"authors", List(<< << <<"Hinton">>, <<"Geoffrey", " ", "E.">> >>,
                              << <<"Bengio">>, <<"Yoshua">> >> >>)>>,
         <<"title", Str(<<"Baz">>)>>,
         <<"doi", Str(<<"10.1/x">>)>> >> }

\* What Crossref can answer: the members of "message" that are read, an
\* author being <<given, family>> as the payload orders them.
DoiPayloads(id) ==
    { << <<"DOI", Str(id)>>,
         <<"author", List(<< << <<"Ada">>, <<"Lovelace">> >> >>)>>,
         <<"created", Num(<<"2018">>)>>,
         <<"title", List(<< << <<"Deep">> >>, << <<"Nets">> >> >>)>> >> }

\* What Semantic Scholar can answer: an author is <<name>>, the full name.
SemsPayloads(id) ==
    { << <<"authors", List(<< << <<"Jon", " ", "Smith">> >> >>)>>,
         <<"doi", Str(<<"10.5/s">>)>>,
         <<"title", Str(<<"Qux">>)>>,
         <<"year", Num(<<"2019">>)>> >>,
      << <<"arxivId", Str(<<"9">>)>>,
         <<"authors", List(<< << <<"Yann", " ", "Andre", " ", "LeCun">> >>,
                              << <<"Aristotle">> >> >>)>>,
         <<"title", Str(<<"Quux">>)>> >> }

\* fetch_raw_metadata_sems: res['sems_id'] = src_id on the decoded answer.
SemsRaw(payload, src_id) == Put(payload, "sems_id", Str(src_id))

\* clean_raw_metadata_arxiv._normalize_title
RECURSIVE CollapseSpaces(_)
CollapseSpaces(s) ==
    IF Len(s) < 2 THEN s
    ELSE IF s[1] = " " /\ s[2] = " " THEN CollapseSpaces(Tail(s))
    ELSE <<s[1]>> \o CollapseSpaces(Tail(s))

NormalizeTitle(title) ==
    CollapseSpaces([i \in 1..Len(title) |->
                       IF title[i] = "\n" THEN " " ELSE title[i]])

\* clean_raw_metadata_arxiv._normalize_arxiv_id
NormalizeArxivId(arxiv_id) ==
    SelectSeq(arxiv_id, LAMBDA t : t # "oai:arXiv.org:")

\* s[0:n]
Prefix(s, n) == SubSeq(s, 1, IF Len(s) < n THEN Len(s) ELSE n)

clean_raw_metadata_arxiv(met_raw) ==
    LET authors_raw == IF Get(met_raw, "authors").tag = "list"
                       THEN Get(met_raw, "authors").l
                       ELSE <<Get(met_raw, "authors").l[1]>>
        created == Get(met_raw, "created")
        m1 == << <<"title", Str(NormalizeTitle(Get(met_raw, "title").s))>>,
                 <<"authors", List([i \in 1..Len(authors_raw) |->
                                      <<authors_raw[i][1], authors_raw[i][2]>>])>>,
                 <<"arxiv_id",
                   Str(NormalizeArxivId(Get(met_raw, "identifier").s))>> >>
        m2 == IF created # None
              THEN Put(m1, "year", Str(Prefix(created.s, 4)))
              ELSE m1
    IN  IF Has(met_raw, "doi")
        THEN Put(m2, "doi", Get(met_raw, "doi"))
        ELSE Put(m2, "doi", None)

\* title = ''; for t in title_parts: title += ' ' + t; then title[1:]
RECURSIVE JoinParts(_)
JoinParts(parts) ==
    IF parts = <<>> THEN <<>>
    ELSE JoinParts(SubSeq(parts, 1, Len(parts) - 1))
         \o <<" ">> \o parts[Len(parts)][1]

clean_raw_metadata_doi(met_raw) ==
    LET title == JoinParts(Get(met_raw, "title").l)
        author == Get(met_raw, "author").l
    IN  << <<"title", Str(SubSeq(title, 2, Len(title)))>>,
           <<"authors", List([i \in 1..Len(author) |->
                                <<author[i][2], author[i][1]>>])>>,
           <<"doi", Get(met_raw, "DOI")>>,
           <<"year", PyStr(Get(met_raw, "created"))>> >>

\* a_split = a['name'].split(); a = [a_split[-1]] + a_split[:-1]
SemsAuthor(name) ==
    LET a_split == Split(name)
        n == Len(a_split)
    IN  << <<a_split[n]>> >> \o [i \in 1..(n - 1) |-> <<a_split[i]>>]

clean_raw_metadata_sems(met_raw) ==
    LET authors == Get(met_raw, "authors").l
        m1 == << <<"authors", List([i \in 1..Len(authors) |->
                                      SemsAuthor(authors[i][1])])>>,
                 <<"title", Get(met_raw, "title")>>,
                 <<"sems_id", Get(met_raw, "sems_id")>> >>
        m2 == IF Has(met_raw, "arxivId")
              THEN Put(m1, "arxiv_id", Get(met_raw, "arxivId")) ELSE m1
        m3 == IF Has(met_raw, "doi")
              THEN Put(m2, "doi", Get(met_raw, "doi")) ELSE m2
    IN  IF Has(met_raw, "year")
        THEN Put(m3, "year", PyStr(Get(met_raw, "year"))) ELSE m3

(* ------------------------- merging and rendering ---------------------- *)

\* main.merge_dicts: for k, v in m2.items(): if k not in m1: m1[k] = v
RECURSIVE merge_dicts(_, _)
merge_dicts(m1, m2) ==
    IF m2 = <<>> THEN m1
    ELSE LET m == merge_dicts(m1, SubSeq(m2, 1, Len(m2) - 1))
             kv == m2[Len(m2)]
         IN  IF Has(m, kv[1]) THEN m ELSE Append(m, kv)

\* m.get(k, None)
GetOrNone(m, k) == IF Has(m, k) THEN Get(m, k) ELSE None

\* authors += ', ' + a[1] + ' ' + a[0], over the authors in order
RECURSIVE AuthorsText(_)
AuthorsText(as) ==
    IF as = <<>> THEN <<>>
    ELSE LET a == as[Len(as)]
         IN  AuthorsText(SubSeq(as, 1, Len(as) - 1))
             \o <<",", " ">> \o a[2] \o <<" ">> \o a[1]

\* convert_metadata_to_lines(m): the text, or the exception raised.
convert_metadata_to_lines(m) ==
    IF ~ (Has(m, "title") /\ Has(m, "authors"))
    THEN [kind |-> "KeyError", text |-> <<>>]
    ELSE IF \E i \in 1..Len(Get(m, "authors").l) : Len(Get(m, "authors").l[i]) < 2
    THEN [kind |-> "IndexError", text |-> <<>>]
    ELSE
    LET year == IF GetOrNone(m, "year") # None
                THEN <<" ", "(">> \o Get(m, "year").s \o <<")", " ">>
                ELSE <<" ">>
        authors == AuthorsText(Get(m, "authors").l)
        line_prefix == Get(m, "line_prefix").s
        enumerator_char == Get(m, "enumerator_char").s
        prefix == line_prefix \o <<" ", " ">> \o enumerator_char \o <<" ">>
        arxiv_id == GetOrNone(m, "arxiv_id")
        doi == GetOrNone(m, "doi")
        content == line_prefix \o enumerator_char \o year \o Get(m, "title").s
                   \o <<" ", "by", " ">> \o SubSeq(authors, 3, Len(authors))
                   \o <<"\n">>
        content2 == IF arxiv_id # None
                    THEN content \o prefix \o <<"https://arxiv.org/pdf/">>
                         \o arxiv_id.s \o <<"\n">>
                    ELSE content
    IN  [kind |-> "ok",
         text |-> IF doi # None
                  THEN content2 \o prefix \o <<"https://dx.doi.org/">>
                       \o doi.s \o <<"\n">>
                  ELSE content2]

(* --------------------------- the state machine ------------------------ *)

\* time.sleep(5) after an answered request.
PolitenessDelay == 5

\* The Retry-After values the arXiv server gives with a 503 (seconds).
RetryAfters == {2}

\* The lines a template of the model is made of: text, a blank line, an
\* empty bullet, a bullet of text, references to each source (one with an
\* indentation, one naming two sources) and a reference that is not JSON.
TemplateLines ==
    { <<"x", "\n">>,
      <<" ", "\n">>,
      <<"+", "\n">>,
      <<"+", " ", "x", "\n">>,
      <<" ", "+", " ", "{", "a1", "}", "\n">>,
      <<"+", " ", "{", "a1", " ", "s1", "}", "\n">>,
      <<"+", " ", "{", "d1", "}", "\n">>,
      <<"+", " ", "{", "s1", "}", "\n">>,
      <<"+", " ", "{", "x", "}", "\n">> }

Templates == UNION {[1..n -> TemplateLines] : n \in 1..MaxLines}

SourceCodes == <<"a", "d", "s">>

Keys == {get_cache_key(SourceCodes[i], id) : i \in 1..3, id \in Ids}

\* The member of the descriptor that names the identifier for a source.
SourceField(i) ==
    CASE i = 1 -> "arxiv_id" [] i = 2 -> "doi" [] OTHER -> "sems_id"

\* fetch_raw's decoded answers and clean_raw, per source.
RawAnswers(i, src_id) ==
    CASE i = 1 -> ArxivPayloads(src_id)
      [] i = 2 -> DoiPayloads(src_id)
      [] OTHER -> {SemsRaw(p, src_id) : p \in SemsPayloads(src_id)}

CleanRaw(i, met_raw) ==
    CASE i = 1 -> clean_raw_metadata_arxiv(met_raw)
      [] i = 2 -> clean_raw_metadata_doi(met_raw)
      [] OTHER -> clean_raw_metadata_sems(met_raw)

NoMets == <<EmptyCache, EmptyCache, EmptyCache>>

\* fetch_metadata_cached, line 263: met_raw[KEY_FIELD_NAME] = cache_key
Tagged(met_raw, cache_key) == Put(met_raw, KEY_FIELD_NAME, Str(cache_key))

\* The cache file before the first run of a behaviour: none, or the file an
\* earlier run of the program saved after fetching one arXiv record (for a
\* template that has changed since).
InitialFiles ==
    {NoFile}
    \cup UNION {{save_cache(CachePut(EmptyCache, get_cache_key("a", id),
                                     Tagged(p, get_cache_key("a", id)))) :
                    p \in {q \in ArxivPayloads(id) : Has(q, "doi")}} :
                 id \in Ids}

VARIABLES
    template,   \* the lines of the template file, the same in every run
    cacheFile,  \* the cache file on disk
    run,        \* the number of runs started
    useCache,   \* args.cache_fname is not None, the same in every run
    pc,         \* where main is: init, line, lookup, requesting, throttled,
                \* render, done, aborted
    cache,      \* main's cache
    n0_cache,   \* main's n0_cache
    lineNo,     \* the index of the line the loop is at
    m,          \* main's m for the current line
    mets,       \* main's m_arx, m_doi, m_sems
    stage,      \* the source being looked up: 1 arXiv, 2 DOI, 3 sems
    wait,       \* retry_after while fetch_raw_metadata_arxiv sleeps
    out,        \* standard output: one text per print
    throttles,  \* the 503 answers to the current fetch
    slept,      \* the time.sleep durations of the current lookup, in order
    hints,      \* the Retry-After values of the current lookup, in order
    lastLookup, \* how the last lookup ended: none, hit, fetched, failed
    called,     \* per key, the fetch_raw calls of this run
    fetched,    \* per key, the fetch_raw results put into a cache, all runs
    puts,       \* the entries put into the cache since it was loaded
    wrote,      \* this run has written the cache file
    file0,      \* the cache file as this run found it
    prev        \* the previous run: how it ended, its output

vars ==
    <<template, cacheFile, run, useCache, pc, cache, n0_cache, lineNo, m,
      mets, stage, wait, out, throttles, slept, hints, lastLookup, called,
      fetched, puts, wrote, file0, prev>>

lineVars == <<m, mets, stage, wait, throttles>>
ghostRun == <<called, fetched, puts, wrote, file0, prev>>
fixed == <<template, run, useCache, n0_cache, file0, prev>>

Zero == [k \in Keys |-> 0]

Init ==
    /\ template \in Templates
    /\ useCache \in BOOLEAN
    /\ cacheFile \in IF useCache THEN InitialFiles ELSE {NoFile}
    /\ run = 0
    /\ pc = "init"
    /\ cache = EmptyCache
    /\ n0_cache = 0
    /\ lineNo = 1
    /\ m = <<>>
    /\ mets = NoMets
    /\ stage = 1
    /\ wait = 0
    /\ out = <<>>
    /\ throttles = 0
    /\ slept = <<>>
    /\ hints = <<>>
    /\ lastLookup = "none"
    /\ called = Zero
    /\ fetched = Zero
    /\ puts = 0
    /\ wrote = FALSE
    /\ file0 = cacheFile
    /\ prev = [status |-> "none", out |-> <<>>]

\* main, lines 277-280: the program is started on the template.
StartRun ==
    /\ pc \in {"init", "done", "aborted"}
    /\ run < MaxRuns
    /\ run' = run + 1
    /\ cache' = IF useCache THEN load_cache(cacheFile) ELSE EmptyCache
    /\ n0_cache' = Cardinality(DOMAIN cache')
    /\ lineNo' = 1
    /\ out' = <<>>
    /\ pc' = "line"
    /\ m' = <<>> /\ mets' = NoMets /\ stage' = 1 /\ wait' = 0
    /\ throttles' = 0 /\ slept' = <<>> /\ hints' = <<>>
    /\ lastLookup' = "none"
    /\ called' = Zero
    /\ puts' = 0
    /\ wrote' = FALSE
    /\ file0' = cacheFile
    /\ prev' = [status |-> pc, out |-> out]
    /\ UNCHANGED <<template, cacheFile, useCache, fetched>>

\* A main that saves the cache on its way out of an exception.
Raise_Saving ==
    /\ pc' = "aborted"
    /\ cacheFile' = IF useCache THEN save_cache(cache) ELSE cacheFile
    /\ UNCHANGED <<cache, out, lineNo, wrote>>

\* An exception leaves main: nothing after the raising statement runs.
Raise ==
    /\ pc' = "aborted"
    /\ UNCHANGED <<cacheFile, cache, out, lineNo, wrote>>

\* Lines 285, 314-315: the line is no reference and is printed as it is.
Passthrough ==
    /\ pc = "line" /\ lineNo <= Len(template)
    /\ extract_metadata(template[lineNo]).kind = "none"
    /\ out' = Append(out, template[lineNo])
    /\ lineNo' = lineNo + 1
    /\ UNCHANGED <<pc, cacheFile, cache, slept, hints, lastLookup>>
    /\ UNCHANGED lineVars /\ UNCHANGED ghostRun /\ UNCHANGED fixed

\* Lines 285-288: the line is a reference.
BeginReference ==
    /\ pc = "line" /\ lineNo <= Len(template)
    /\ extract_metadata(template[lineNo]).kind = "desc"
    /\ m' = extract_metadata(template[lineNo]).m
    /\ mets' = NoMets
    /\ stage' = 1
    /\ pc' = "lookup"
    /\ UNCHANGED <<cacheFile, cache, out, lineNo, wait, throttles, slept,
                   hints, lastLookup>>
    /\ UNCHANGED ghostRun /\ UNCHANGED fixed

\* Line 285: extract_metadata raises (IndexError, JSONDecodeError).
ExtractFails ==
    /\ pc = "line" /\ lineNo <= Len(template)
    /\ extract_metadata(template[lineNo]).kind \notin {"none", "desc"}
    /\ Raise
    /\ UNCHANGED <<slept, hints, lastLookup>>
    /\ UNCHANGED lineVars /\ UNCHANGED ghostRun /\ UNCHANGED fixed

\* After a source: the next one, or the merge.
AfterSource(i) ==
    IF i < 3 THEN pc' = "lookup" /\ stage' = i + 1
             ELSE pc' = "render" /\ stage' = 1

CurrentKey == get_cache_key(SourceCodes[stage], Get(m, SourceField(stage)).s)

\* Lines 289, 295, 301: m does not name the source.
SkipSource ==
    /\ pc = "lookup"
    /\ ~ Has(m, SourceField(stage))
    /\ AfterSource(stage)
    /\ UNCHANGED <<cacheFile, cache, out, lineNo, m, mets, wait, throttles,
                   slept, hints, lastLookup>>
    /\ UNCHANGED ghostRun /\ UNCHANGED fixed

\* fetch_metadata_cached, lines 258-261, 265: the key is in the cache.
CacheHit ==
    /\ pc = "lookup"
    /\ Has(m, SourceField(stage))
    /\ CurrentKey \in DOMAIN cache
    /\ mets' = [mets EXCEPT ![stage] = CleanRaw(stage, cache[CurrentKey])]
    /\ AfterSource(stage)
    /\ slept' = <<>> /\ hints' = <<>>
    /\ lastLookup' = "hit"
    /\ UNCHANGED <<cacheFile, cache, out, lineNo, m, wait, throttles>>
    /\ UNCHANGED ghostRun /\ UNCHANGED fixed

\* fetch_metadata_cached, lines 261-262: the key is absent, fetch_raw is
\* called.
CacheMiss ==
    /\ pc = "lookup"
    /\ Has(m, SourceField(stage))
    /\ CurrentKey \notin DOMAIN cache
    /\ called' = [called EXCEPT ![CurrentKey] = @ + 1]
    /\ pc' = "requesting"
    /\ throttles' = 0
    /\ slept' = <<>> /\ hints' = <<>>
    /\ lastLookup' = "none"
    /\ UNCHANGED <<cacheFile, cache, out, lineNo, m, mets, stage, wait>>
    /\ UNCHANGED <<fetched, puts, wrote>> /\ UNCHANGED fixed

\* A fetch_raw that returns without the delay.
SleepAfterAnswer_None(s) == s

\* The sleeps of fetch_raw once urlopen(url).read() has returned.
SleepAfterAnswer(s) == Append(s, PolitenessDelay)

\* A fetch_metadata_cached that does not store what it fetched.
StoreAnswer_NoPut(met_raw) ==
    /\ slept' = SleepAfterAnswer(slept)
    /\ mets' = [mets EXCEPT ![stage] =
                   CleanRaw(stage, Tagged(met_raw, CurrentKey))]
    /\ fetched' = [fetched EXCEPT ![CurrentKey] = @ + 1]
    /\ puts' = puts + 1
    /\ AfterSource(stage)
    /\ lastLookup' = "fetched"
    /\ UNCHANGED <<cacheFile, cache, out, lineNo, m, wait, throttles, hints,
                   called, wrote>>
    /\ UNCHANGED fixed

\* urlopen answers; fetch_raw sleeps and returns the decoded answer, and
\* fetch_metadata_cached (lines 263-265) tags it, stores it and cleans it.
StoreAnswer(met_raw) ==
    /\ slept' = SleepAfterAnswer(slept)
    /\ LET r == Tagged(met_raw, CurrentKey)
       IN  /\ cache' = CachePut(cache, CurrentKey, r)
           /\ mets' = [mets EXCEPT ![stage] = CleanRaw(stage, r)]
    /\ fetched' = [fetched EXCEPT ![CurrentKey] = @ + 1]
    /\ puts' = puts + 1
    /\ AfterSource(stage)
    /\ lastLookup' = "fetched"
    /\ UNCHANGED <<cacheFile, out, lineNo, m, wait, throttles, hints, called,
                   wrote>>
    /\ UNCHANGED fixed

Answered ==
    /\ pc = "requesting"
    /\ \E met_raw \in RawAnswers(stage, Get(m, SourceField(stage)).s) :
           StoreAnswer(met_raw)

\* fetch_raw_metadata_arxiv, lines 119-123: a 503 with a Retry-After; the
\* function sleeps that long.
Throttled(retry_after) ==
    /\ pc = "requesting"
    /\ stage = 1
    /\ throttles < MaxThrottle
    /\ throttles' = throttles + 1
    /\ wait' = retry_after
    /\ hints' = Append(hints, retry_after)
    /\ pc' = "throttled"
    /\ UNCHANGED <<cacheFile, cache, out, lineNo, m, mets, stage, slept,
                   lastLookup>>
    /\ UNCHANGED ghostRun /\ UNCHANGED fixed

\* A retry loop that gives up at the second 503.
ArxivRetry_Capped ==
    /\ pc = "throttled"
    /\ IF throttles >= 2
       THEN Raise /\ UNCHANGED <<slept, wait>>
       ELSE slept' = Append(slept, wait) /\ wait' = 0 /\ pc' = "requesting"
            /\ UNCHANGED <<cacheFile, cache, out, lineNo>>
    /\ UNCHANGED <<m, mets, stage, throttles, hints, lastLookup>>
    /\ UNCHANGED ghostRun /\ UNCHANGED fixed

\* fetch_raw_metadata_arxiv, lines 112, 123: the sleep is over and the
\* loop issues the request again.
ArxivRetry ==
    /\ pc = "throttled"
    /\ slept' = Append(slept, wait)
    /\ wait' = 0
    /\ pc' = "requesting"
    /\ UNCHANGED <<cacheFile, cache, out, lineNo, m, mets, stage, throttles,
                   hints, lastLookup>>
    /\ UNCHANGED ghostRun /\ UNCHANGED fixed

\* urlopen raises an HTTPError that is not retried: any for Crossref and
\* Semantic Scholar (lines 171, 200), any but 503 for arXiv (line 125).
HttpError ==
    /\ pc = "requesting"
    /\ Raise
    /\ lastLookup' = "failed"
    /\ UNCHANGED <<slept, hints>>
    /\ UNCHANGED lineVars /\ UNCHANGED ghostRun /\ UNCHANGED fixed

\* Lines 308-310.
Merged == merge_dicts(merge_dicts(merge_dicts(m, mets[1]), mets[2]), mets[3])

\* Lines 308-313: the records are merged and the citation is printed.
Render ==
    /\ pc = "render"
    /\ convert_metadata_to_lines(Merged).kind = "ok"
    /\ out' = Append(out, convert_metadata_to_lines(Merged).text)
    /\ lineNo' = lineNo + 1
    /\ pc' = "line"
    /\ m' = <<>> /\ mets' = NoMets
    /\ throttles' = 0 /\ slept' = <<>> /\ hints' = <<>>
    /\ lastLookup' = "none"
    /\ UNCHANGED <<cacheFile, cache, stage, wait>>
    /\ UNCHANGED ghostRun /\ UNCHANGED fixed

\* Line 312: convert_metadata_to_lines raises (KeyError, IndexError).
RenderFails ==
    /\ pc = "render"
    /\ convert_metadata_to_lines(Merged).kind # "ok"
    /\ Raise
    /\ UNCHANGED <<slept, hints, lastLookup>>
    /\ UNCHANGED lineVars /\ UNCHANGED ghostRun /\ UNCHANGED fixed

\* A main that saves whenever a cache file is given.
SaveNeeded_Always == useCache

\* Line 317: the condition under which main saves the cache.
SaveNeeded == useCache /\ n0_cache # Cardinality(DOMAIN cache)

\* Lines 317-318: the template is exhausted.
EndRun ==
    /\ pc = "line" /\ lineNo > Len(template)
    /\ IF SaveNeeded
       THEN cacheFile' = save_cache(cache) /\ wrote' = TRUE
       ELSE UNCHANGED <<cacheFile, wrote>>
    /\ pc' = "done"
    /\ UNCHANGED <<cache, out, lineNo, slept, hints, lastLookup, called,
                   fetched, puts>>
    /\ UNCHANGED lineVars /\ UNCHANGED fixed

Next ==
    \/ StartRun
    \/ Passthrough
    \/ BeginReference
    \/ ExtractFails
    \/ SkipSource
    \/ CacheHit
    \/ CacheMiss
    \/ Answered
    \/ \E r \in RetryAfters : Throttled(r)
    \/ ArxivRetry
    \/ HttpError
    \/ Render
    \/ RenderFails
    \/ EndRun

Spec == Init /\ [][Next]_vars

\* A request is answered: by an error, by a 503 or by the record.
Respond == HttpError \/ (\E r \in RetryAfters : Throttled(r)) \/ Answered

\* The templates all of whose lines are references naming an arXiv
\* identifier.
ArxivTemplates ==
    {t \in Templates :
        \A i \in 1..Len(t) :
            /\ extract_metadata(t[i]).kind = "desc"
            /\ Has(extract_metadata(t[i]).m, "arxiv_id")}

FetchInit == Init /\ template \in ArxivTemplates

\* The steps of the program on such a template.
FetchNext ==
    \/ StartRun
    \/ BeginReference
    \/ SkipSource
    \/ CacheHit
    \/ CacheMiss
    \/ Respond
    \/ ArxivRetry
    \/ Render
    \/ EndRun

\* The program on templates of arXiv references.  Every request is
\* answered, and a sleep comes to its end; the server answers one fetch
\* with at most MaxThrottle 503s.  Nothing obliges anyone to start the
\* program again.
FetchSpec ==
    FetchInit /\ [][FetchNext]_vars /\ WF_vars(Respond) /\ WF_vars(ArxivRetry)

(* ------------------------------ properties ---------------------------- *)

\* The cache as a run that is given the cache file finds it.
Loaded == IF useCache THEN load_cache(file0) ELSE EmptyCache

C2_SavedIffPut ==
    /\ (pc = "done" /\ useCache) => (wrote <=> puts > 0)
    /\ wrote => (pc = "done" /\ useCache /\ cacheFile = save_cache(cache))
    /\ ~ wrote => cacheFile = file0

\* C2's case: a run whose lookups were all hits has ended, after a run that
\* wrote the file.
C2_Witness ==
    /\ pc = "done" /\ useCache /\ run = 2
    /\ puts = 0 /\ ~ wrote
    /\ cacheFile.exists /\ Len(out) = 2

\* C3: after a run that completed with the cache file, the next run on the
\* same template fetches nothing, does not abort, leaves the cache file as
\* it was and, once done, has printed what the run before printed.
C3_Idempotent ==
    (useCache /\ prev.status = "done")
        => /\ called = Zero /\ puts = 0
           /\ pc \notin {"requesting", "throttled", "aborted"}
           /\ ~ wrote /\ cacheFile = file0
           /\ pc = "done" => out = prev.out

\* C3's case: the second run is done, on a template of two references, with
\* the cache file the first run saved.
C3_Witness ==
    /\ pc = "done" /\ useCache /\ prev.status = "done"
    /\ Len(cacheFile.lines) >= 2
    /\ Len(out) = 2 /\ out[1] # template[1] /\ out[2] # template[2]

\* C4: while fetch_raw_metadata_arxiv is throttled it sleeps for the
\* Retry-After it was given and then issues the same request again, however
\* often it has been throttled; a request ends in an answer, a 503 or the
\* abort of the run by the error; and a fetch whose requests are not
\* answered by 503 for ever comes to an end.
C4_RetryUntilAnswered ==
    /\ [](pc = "throttled" => (stage = 1 /\ hints = Append(slept, wait)
                               /\ ENABLED ArxivRetry))
    /\ [](pc = "requesting" => slept = hints)
    /\ [][pc = "throttled"
            => /\ pc' = "requesting"
               /\ slept' = Append(slept, wait)
               /\ CurrentKey' = CurrentKey /\ called' = called]_vars
    /\ [][(pc = "requesting" /\ pc' # "requesting")
            => \/ pc' = "throttled" /\ stage = 1
               \/ pc' = "aborted" /\ lastLookup' = "failed"
               \/ pc' \in {"lookup", "render"} /\ lastLookup' = "fetched"]_vars
    /\ (pc = "requesting" /\ stage = 1)
          ~> (pc \notin {"requesting", "throttled"})

\* C4's case: the fetch has been throttled as often as the server throttles
\* and is issuing its request again.
C4_Witness ==
    pc = "requesting" /\ stage = 1 /\ throttles = MaxThrottle
    /\ Len(slept) = MaxThrottle

C6_AbortLosesRun ==
    /\ [](pc = "aborted"
            => /\ lineNo <= Len(template)
               /\ Len(out) = lineNo - 1
               /\ cacheFile = file0 /\ ~ wrote)
    /\ [][/\ pc' = "aborted" => out' = out
          /\ pc = "aborted" => (run' = run + 1 /\ out' = <<>>)
          /\ (pc = "line" /\ lineNo <= Len(template)
                /\ extract_metadata(template[lineNo]).kind = "JSONDecodeError")
                => pc' = "aborted"]_vars

\* C6's case: the run aborts on the malformed reference of its second line
\* after the first line's fetch put an entry into the cache.
C6_Witness ==
    /\ pc = "aborted" /\ useCache /\ lineNo = 2 /\ puts > 0
    /\ extract_metadata(template[2]).kind = "JSONDecodeError"
    /\ ~ cacheFile.exists

\* A line that is not a reference, in the words of C7.
NotReference(line) ==
    LET t == Strip(line)
    IN  \/ t = <<>>
        \/ t[1] # "+"
        \/ LET r == Strip(Tail(t))
           IN  ~ (r # <<>> /\ r[1] = "{" /\ r[Len(r)] = "}")

\* C7: a line that is not a reference never raises, causes no lookup, and
\* is printed unchanged.
C7_NonReferencePassthrough ==
    /\ pc \in {"aborted", "lookup", "requesting", "throttled", "render"}
          => ~ NotReference(template[lineNo])
    /\ \A i \in 1..Len(out) : NotReference(template[i]) => out[i] = template[i]

\* The sources of a line in the order main merges them.
Sources == <<m, mets[1], mets[2], mets[3]>>

Populated(d, f) == Has(d, f) /\ Get(d, f) # None

\* C8: in the merged record every field that some source populates has the
\* value of the first source, in the order descriptor, arXiv, DOI, Semantic
\* Scholar, that populates it.
C8_FirstPopulatedWins ==
    pc = "render"
        => \A f \in Names(Merged) \ {"enumerator_char", "line_prefix"} :
             \A i \in 1..4 :
                (Populated(Sources[i], f)
                   /\ \A j \in 1..(i - 1) : ~ Populated(Sources[j], f))
                => Get(Merged, f) = Get(Sources[i], f)

\* The given names of a full name: the tokens before the last, joined.
RECURSIVE Joined(_)
Joined(ts) ==
    IF ts = <<>> THEN <<>>
    ELSE IF Len(ts) = 1 THEN <<ts[1]>>
    ELSE <<ts[1], " ">> \o Joined(Tail(ts))

\* C9: the authors of every Semantic Scholar record of the cache normalize,
\* in order, to the pairs (last token of the name, the tokens before it
\* joined).
C9_SemsAuthorsArePairs ==
    \A k \in DOMAIN cache :
        k[1] = "s"
        => LET names == Get(cache[k], "authors").l
               authors == Get(clean_raw_metadata_sems(cache[k]), "authors").l
           IN  /\ Len(authors) = Len(names)
               /\ \A i \in 1..Len(names) :
                     LET ts == Split(names[i][1])
                     IN  authors[i] = << <<ts[Len(ts)]>>,
                                         Joined(SubSeq(ts, 1, Len(ts) - 1)) >>

\* C10: saving the cache of any reachable state and loading what was saved
\* gives the same keys with the same records; the saved file has one line per
\* key, in ascending order of key; and saving the loaded cache file gives
\* the cache file back.
C10_RoundTrip ==
    LET f == save_cache(cache)
        c == load_cache(f)
    IN  /\ DOMAIN c = DOMAIN cache
        /\ \A k \in DOMAIN cache : AsMap(c[k]) = AsMap(cache[k])
        /\ Len(f.lines) = Cardinality(DOMAIN cache)
        /\ \A i \in 1..Len(f.lines) :
              /\ Get(f.lines[i], KEY_FIELD_NAME).s \in DOMAIN cache
              /\ i > 1 => StrLess(Get(f.lines[i - 1], KEY_FIELD_NAME).s,
                                  Get(f.lines[i], KEY_FIELD_NAME).s)
        /\ cacheFile.exists => save_cache(load_cache(cacheFile)) = cacheFile

\* C10's case: a cache of three keys, loaded from the cache file and put
\* into, a record of which is not in the order of its saved form.
C10_Witness ==
    /\ cacheFile.exists /\ puts > 0 /\ n0_cache > 0
    /\ Cardinality(DOMAIN cache) = 3
    /\ \E k \in DOMAIN cache : JsonDumps(cache[k]) # cache[k]

====
